---- MODULE Spec2Model ----
(***************************************************************************)
(* Campus Data Workflow Automation System: the bootstrap module main.py.   *)
(*                                                                         *)
(* One process loads the module top to bottom: it imports the engine,      *)
(* runs models.Base.metadata.create_all(bind=engine), constructs the       *)
(* FastAPI application object and registers root() under GET /.  When the  *)
(* module has loaded the ASGI server dispatches requests to the            *)
(* application's routes.  The database file outlives the process; a        *)
(* restart loads the module again against the same file.                   *)
(***************************************************************************)
EXTENDS FiniteSets, Integers, Sequences, TLC

(* ------------------------------ bounds -------------------------------- *)

\* number of table names the database and the declarations range over
NumTables == 2
\* number of times the process is started again against the same file
MaxRestarts == 2
\* number of requests the server holds at the same time
MaxInFlight == 2

(* --------------------------- value domains ----------------------------- *)

TableNames == 1..NumTables

\* the column layout models.py declares for a table, and any other layout
DeclaredDef == "declared"
OtherDef == "other"

\* what a table holds: nothing, or rows written earlier
Empty == "empty"
Contents == {Empty, "rows"}

\* the request lines sent: the registered route, another method on it, a
\* route the constructor registered, and a path no route has
RequestLines == {[method |-> "GET", path |-> "/"],
                 [method |-> "POST", path |-> "/"],
                 [method |-> "GET", path |-> "/docs"],
                 [method |-> "GET", path |-> "/nope"]}
\* what else a request carries: its headers and its body
Payloads == {[headers |-> "", body |-> ""],
             [headers |-> "X-Any: 1", body |-> "{\"a\": 1}"]}

Requests == {[method |-> l.method, path |-> l.path, payload |-> p] :
                 l \in RequestLines, p \in Payloads}

NoError == "none"
Unreachable == "OperationalError: unable to open database file"
TableExists == "OperationalError: table already exists"

\* a module-level name that is not bound yet
Unbound == [bound |-> FALSE]

VARIABLES
    pc,               \* position of the process in main.py
    engine,           \* the name engine imported from database.db
    engineCreations,  \* engines created by this process
    schemaRuns,       \* create_all calls made by this process
    error,            \* the exception that ended module load, if any
    app,              \* the name app
    routes,           \* app.router.routes, in registration order
    pending,          \* requests received and not yet dispatched
    responses,        \* responses produced and not yet sent
    db,               \* the tables of the database file
    declared,         \* the tables of models.Base.metadata
    reachable,        \* whether the database can be opened
    completed,        \* create_all calls completed against this file: 0, 1, 2 for more
    restarts          \* how often the process was started again

vars == <<pc, engine, engineCreations, schemaRuns, error, app, routes,
          pending, responses, db, declared, reachable, completed, restarts>>

process == <<pc, engine, engineCreations, schemaRuns, error, app, routes>>

(* ----------------------------- database -------------------------------- *)

\* a database file holds at most one table of a name
NoDuplicateTables(d) == \A r1 \in d : \A r2 \in d : r1.name = r2.name => r1 = r2

\* The layouts a table named t can have in the file: any table can have a
\* layout of its own, a table models.py declares can have the declared one.
Layouts(t, tables) == IF t \in tables THEN {DeclaredDef, OtherDef} ELSE {OtherDef}

\* the database files the process can be started against, tables declared
Databases(tables) ==
    UNION { { {[name |-> t, def |-> f[t].def, rows |-> f[t].rows] : t \in S} :
              f \in {g \in [S -> [def : {DeclaredDef, OtherDef}, rows : Contents]] :
                        \A t \in S : g[t].def \in Layouts(t, tables)} } :
            S \in SUBSET TableNames }

\* Inspector.has_table, the test create_all makes when checkfirst is set
has_table(d, t) == \E r \in d : r.name = t

\* CREATE TABLE for the declaration of t: an empty table of the declared layout
new_table(t) == [name |-> t, def |-> DeclaredDef, rows |-> Empty]

\* The CREATE TABLE statements for the tables in toCreate, in one
\* transaction: SQLite refuses to create a name that exists and the
\* transaction is rolled back.
emit_creates(d, toCreate) ==
    IF \E t \in toCreate : has_table(d, t)
    THEN [ok |-> FALSE, db |-> d]
    ELSE [ok |-> TRUE, db |-> d \cup {new_table(t) : t \in toCreate}]

\* create_all that issues CREATE TABLE for every declared table
create_all_NoCheck(d, tables, checkfirst) ==
    emit_creates(d, tables)

\* create_all that drops the declared tables before creating them
create_all_Recreate(d, tables, checkfirst) ==
    emit_creates({r \in d : r.name \notin tables}, tables)

\* MetaData.create_all(bind, checkfirst): with checkfirst only the tables
\* that are absent are created
create_all(d, tables, checkfirst) ==
    emit_creates(d, IF checkfirst THEN {t \in tables : ~has_table(d, t)} ELSE tables)

\* database.db: the engine object the import binds, one per creation
create_engine(pid, serial) == [bound |-> TRUE, pid |-> pid, serial |-> serial]

(* ---------------------------- application ------------------------------ *)

FastAPI_WrongVersion(title, version) ==
    [bound |-> TRUE, title |-> title, version |-> "0.1"]

\* FastAPI(title=..., version=...)
FastAPI(title, version) == [bound |-> TRUE, title |-> title, version |-> version]

\* The routes the constructor registers with its default openapi_url,
\* docs_url and redoc_url; add_route registers GET, and HEAD with it.
docs_routes ==
    << [path |-> "/openapi.json", methods |-> {"GET", "HEAD"}, endpoint |-> "openapi"],
       [path |-> "/docs", methods |-> {"GET", "HEAD"}, endpoint |-> "swagger_ui_html"],
       [path |-> "/docs/oauth2-redirect", methods |-> {"GET", "HEAD"},
        endpoint |-> "swagger_ui_redirect"],
       [path |-> "/redoc", methods |-> {"GET", "HEAD"}, endpoint |-> "redoc_html"] >>

root_route_AnyMethod ==
    [path |-> "/", methods |-> {"GET", "POST"}, endpoint |-> "root"]

\* @app.get("/") over def root()
root_route == [path |-> "/", methods |-> {"GET"}, endpoint |-> "root"]

root_Postgres ==
    [status |-> "Backend running", module |-> "Foundation", database |-> "PostgreSQL"]

\* def root(): the mapping it returns
root == [status |-> "Backend running", module |-> "Foundation", database |-> "SQLite"]

\* the response the framework builds from what an endpoint returns
JSONResponse(content) ==
    [status_code |-> 200, media_type |-> "application/json", body |-> content]

HTMLResponse(page) ==
    [status_code |-> 200, media_type |-> "text/html", body |-> [html |-> page]]

HTTPException(code, detail) ==
    [status_code |-> code, media_type |-> "application/json", body |-> [detail |-> detail]]

call_endpoint(e, a) ==
    IF e = "root" THEN JSONResponse(root)
    ELSE IF e = "openapi"
         THEN JSONResponse([info |-> [title |-> a.title, version |-> a.version]])
         ELSE HTMLResponse(e)

Indices(rs) == 1..Len(rs)

\* Router dispatch: the first route matching path and method answers; a
\* path that matches under another method gives 405, no match gives 404.
dispatch(rs, a, req) ==
    LET full == {i \in Indices(rs) : rs[i].path = req.path /\ req.method \in rs[i].methods}
        partial == {i \in Indices(rs) : rs[i].path = req.path}
    IN  IF full # {}
        THEN call_endpoint(rs[CHOOSE i \in full : \A j \in full : i <= j].endpoint, a)
        ELSE IF partial # {}
             THEN HTTPException(405, "Method Not Allowed")
             ELSE HTTPException(404, "Not Found")

(* ------------------------------ actions -------------------------------- *)

Init ==
    /\ pc = "import"
    /\ engine = Unbound
    /\ engineCreations = 0
    /\ schemaRuns = 0
    /\ error = NoError
    /\ app = Unbound
    /\ routes = << >>
    /\ pending = {}
    /\ responses = {}
    /\ declared \in SUBSET TableNames
    /\ db \in Databases(declared)
    /\ reachable \in BOOLEAN
    /\ completed = 0
    /\ restarts = 0

\* from database.db import engine
ImportEngine ==
    /\ pc = "import"
    /\ engine' = create_engine(restarts, engineCreations + 1)
    /\ engineCreations' = engineCreations + 1
    /\ pc' = "create_all"
    /\ UNCHANGED <<schemaRuns, error, app, routes, pending, responses, db,
                   declared, reachable, completed, restarts>>

\* the outcome of the create_all call on line 7, checkfirst given
RunCreateAll(checkfirst) ==
    /\ pc = "create_all"
    /\ schemaRuns' = schemaRuns + 1
    /\ IF ~reachable
       THEN /\ pc' = "crashed"
            /\ error' = Unreachable
            /\ UNCHANGED <<db, completed>>
       ELSE LET res == create_all(db, declared, checkfirst)
            IN  IF res.ok
                THEN /\ pc' = "construct"
                     /\ db' = res.db
                     /\ completed' = (IF completed < 2 THEN completed + 1 ELSE 2)
                     /\ UNCHANGED error
                ELSE /\ pc' = "crashed"
                     /\ error' = TableExists
                     /\ UNCHANGED <<db, completed>>
    /\ UNCHANGED <<engine, engineCreations, app, routes, pending, responses,
                   declared, reachable, restarts>>

\* create_all(bind=engine, checkfirst=False)
CreateAll_NoCheckfirst ==
    RunCreateAll(FALSE)

\* create_all inside try/except that passes
CreateAll_Swallow ==
    /\ pc = "create_all"
    /\ schemaRuns' = schemaRuns + 1
    /\ pc' = "construct"
    /\ LET res == create_all(db, declared, TRUE)
       IN  IF reachable /\ res.ok
           THEN db' = res.db /\ completed' = (IF completed < 2 THEN completed + 1 ELSE 2)
           ELSE UNCHANGED <<db, completed>>
    /\ UNCHANGED <<engine, engineCreations, error, app, routes, pending,
                   responses, declared, reachable, restarts>>

\* create_all moved into a hook that load never runs
CreateAll_Deferred ==
    /\ pc = "create_all"
    /\ pc' = "construct"
    /\ UNCHANGED <<engine, engineCreations, schemaRuns, error, app, routes,
                   pending, responses, db, declared, reachable, completed, restarts>>

\* models.Base.metadata.create_all(bind=engine)
CreateAll ==
    RunCreateAll(TRUE)

\* app = FastAPI(title=..., version=...)
ConstructApp ==
    /\ pc = "construct"
    /\ app' = FastAPI("Campus Data Workflow Automation System", "0.1.0")
    /\ routes' = docs_routes
    /\ pc' = "register"
    /\ UNCHANGED <<engine, engineCreations, schemaRuns, error, pending,
                   responses, db, declared, reachable, completed, restarts>>

\* @app.get("/")
RegisterRoot ==
    /\ pc = "register"
    /\ routes' = Append(routes, root_route)
    /\ pc' = "serving"
    /\ UNCHANGED <<engine, engineCreations, schemaRuns, error, app, pending,
                   responses, db, declared, reachable, completed, restarts>>

\* the server accepts a request once the module has loaded
Receive(req) ==
    /\ pc = "serving"
    /\ Cardinality(pending) + Cardinality(responses) < MaxInFlight
    /\ req \notin pending
    /\ pending' = pending \cup {req}
    /\ UNCHANGED <<process, responses, db, declared, reachable, completed, restarts>>

\* a handler that records the request in the database
HandleRequest_WritesDb(req) ==
    /\ pc = "serving"
    /\ req \in pending
    /\ pending' = pending \ {req}
    /\ responses' = responses \cup {[req |-> req, resp |-> dispatch(routes, app, req)]}
    /\ db' = {[r EXCEPT !.rows = "rows"] : r \in db}
    /\ UNCHANGED <<process, declared, reachable, completed, restarts>>

\* a handler that makes an engine of its own for the request
HandleRequest_OwnEngine(req) ==
    /\ pc = "serving"
    /\ req \in pending
    /\ pending' = pending \ {req}
    /\ responses' = responses \cup {[req |-> req, resp |-> dispatch(routes, app, req)]}
    /\ engine' = create_engine(restarts, 2)
    /\ UNCHANGED <<pc, engineCreations, schemaRuns, error, app, routes, db,
                   declared, reachable, completed, restarts>>

\* the application answers one request; concurrent requests are answered
\* in any order
HandleRequest(req) ==
    /\ pc = "serving"
    /\ req \in pending
    /\ pending' = pending \ {req}
    /\ responses' = responses \cup {[req |-> req, resp |-> dispatch(routes, app, req)]}
    /\ UNCHANGED <<process, db, declared, reachable, completed, restarts>>

\* the server writes a response to its client
Send(x) ==
    /\ x \in responses
    /\ responses' = responses \ {x}
    /\ UNCHANGED <<process, pending, db, declared, reachable, completed, restarts>>

\* The process ends, by the exception or by being stopped, and a new one
\* loads the module against the same file; r: whether the file can be opened.
Restart(r) ==
    /\ pc \in {"serving", "crashed"}
    /\ restarts < MaxRestarts
    /\ restarts' = restarts + 1
    /\ pc' = "import"
    /\ engine' = Unbound
    /\ engineCreations' = 0
    /\ schemaRuns' = 0
    /\ error' = NoError
    /\ app' = Unbound
    /\ routes' = << >>
    /\ pending' = {}
    /\ responses' = {}
    /\ reachable' = r
    /\ UNCHANGED <<db, declared, completed>>

Next ==
    \/ ImportEngine
    \/ CreateAll
    \/ ConstructApp
    \/ RegisterRoot
    \/ \E req \in Requests : Receive(req)
    \/ \E req \in pending : HandleRequest(req)
    \/ \E x \in responses : Send(x)
    \/ \E r \in BOOLEAN : Restart(r)

Spec == Init /\ [][Next]_vars

(* A run of the example scenario: a fresh empty database file that can be *)
(* opened at every start.                                                  *)
InitFresh ==
    /\ pc = "import"
    /\ engine = Unbound
    /\ engineCreations = 0
    /\ schemaRuns = 0
    /\ error = NoError
    /\ app = Unbound
    /\ routes = << >>
    /\ pending = {}
    /\ responses = {}
    /\ db = {}
    /\ declared \in SUBSET TableNames
    /\ reachable = TRUE
    /\ completed = 0
    /\ restarts = 0

NextFresh ==
    \/ ImportEngine
    \/ CreateAll
    \/ ConstructApp
    \/ RegisterRoot
    \/ \E req \in Requests : Receive(req)
    \/ \E req \in pending : HandleRequest(req)
    \/ \E x \in responses : Send(x)
    \/ Restart(TRUE)

SpecFresh == InitFresh /\ [][NextFresh]_vars

(* ------------------------------ properties ----------------------------- *)

IsGetRoot(req) == req.method = "GET" /\ req.path = "/"

\* the method and path pairs some registered route answers
RouteSet(rs) == UNION {{<<m, rs[i].path>> : m \in rs[i].methods} : i \in Indices(rs)}

\* C1: every response to a GET / request is HTTP 200 with exactly the body
\* {"status": "Backend running", "module": "Foundation", "database": "SQLite"},
\* whatever the request carries and whatever the database holds.
C1_RootResponse ==
    \A x \in responses :
        IsGetRoot(x.req) =>
            /\ x.resp.status_code = 200
            /\ x.resp.body = [status |-> "Backend running", module |-> "Foundation",
                              database |-> "SQLite"]

C1_Witness ==
    \E x \in responses :
        /\ IsGetRoot(x.req)
        /\ x.req.payload.body # ""
        /\ x.resp.status_code = 200
        /\ \E r \in db : r.rows # Empty

\* C2: a schema-creation call made against a database on which the call has
\* completed before, the database being reachable, raises no error and
\* leaves the database with the same tables, none of them twice.
C2_Idempotent ==
    [][(pc = "create_all" /\ completed >= 1 /\ reachable) =>
          /\ pc' = "construct"
          /\ error' = NoError
          /\ db' = db
          /\ NoDuplicateTables(db')]_vars

C2_Witness ==
    /\ pc = "construct"
    /\ completed = 2
    /\ schemaRuns = 1
    /\ declared # {}
    /\ \E t \in declared : new_table(t) \in db

\* C3: when the schema-creation step completes every declared table exists,
\* and every table that existed before the step is still there with the
\* same definition and the same rows; the only tables added are declared
\* tables that were missing.
C3_SchemaStep ==
    [][(pc = "create_all" /\ pc' = "construct") =>
          /\ \A t \in declared : \E r \in db' : r.name = t
          /\ db \subseteq db'
          /\ NoDuplicateTables(db')
          /\ \A r \in db' \ db :
                 /\ r.name \in declared
                 /\ ~ \E q \in db : q.name = r.name
                 /\ r.def = DeclaredDef
                 /\ r.rows = Empty]_vars

C3_Witness ==
    /\ pc = "construct"
    /\ \E r \in db : r.def = OtherDef /\ r.rows # Empty
    /\ \E r \in db : r.name \in declared /\ r.def = DeclaredDef /\ r.rows = Empty

\* C4: when the database cannot be reached at the schema-creation step the
\* load ends with the exception: the step was attempted once, the
\* application object is not constructed, no route is registered and the
\* process receives and answers no request; the only step left is the
\* start of another process.
C4_StartupFailure ==
    /\ [](pc = "crashed" =>
            /\ schemaRuns = 1
            /\ app = [bound |-> FALSE]
            /\ routes = << >>
            /\ pending = {}
            /\ responses = {})
    /\ [][/\ (pc = "create_all" /\ ~reachable) =>
                (pc' = "crashed" /\ error' = Unreachable /\ db' = db)
          /\ pc = "crashed" => (pc' = "import" /\ restarts' = restarts + 1)]_vars

C4_Witness ==
    /\ pc = "crashed"
    /\ error = Unreachable
    /\ schemaRuns = 1
    /\ \E t \in declared : ~has_table(db, t)

C6_Metadata ==
    app # [bound |-> FALSE] =>
        /\ app.title = "Campus Data Workflow Automation System"
        /\ app.version = "0.1.0"

C6_Witness ==
    /\ app # [bound |-> FALSE]
    /\ pc = "serving"
    /\ Cardinality(responses) = MaxInFlight

\* C7: the application object exists, and a request is received or answered,
\* only after the schema-creation step of this process has completed without
\* error, and only while every declared table is in the database.
C7_SchemaBeforeServing ==
    (app # [bound |-> FALSE] \/ routes # << >> \/ pending # {} \/ responses # {}) =>
        /\ schemaRuns = 1
        /\ error = NoError
        /\ pc \in {"construct", "register", "serving"}
        /\ \A t \in declared : \E r \in db : r.name = t

C7_Witness ==
    /\ \E x \in responses : IsGetRoot(x.req)
    /\ declared = TableNames
    /\ restarts = 0
    /\ \A t \in declared : new_table(t) \in db

\* C8: a step that answers a GET / request leaves the tables of the
\* database and their rows, the engine, the application's title and
\* version and the registered routes as they were.
C8_RootFrame ==
    [][(/\ pc = "serving"
        /\ pc' = "serving"
        /\ \E req \in pending \ pending' : IsGetRoot(req)) =>
          /\ db' = db
          /\ engine' = engine
          /\ app' = app
          /\ routes' = routes]_vars

C8_Witness ==
    /\ Cardinality({x \in responses : IsGetRoot(x.req)}) >= 2
    /\ \E r \in db : r.rows # Empty

\* C9: from a fresh empty database file that stays reachable, every start
\* of the process loads without error, whatever the number of restarts, and
\* every GET / is answered with 200 and the same literal body.
C9_FreshRestarts ==
    /\ pc # "crashed"
    /\ error = NoError
    /\ pc \in {"construct", "register", "serving"} => \A t \in declared : has_table(db, t)
    /\ \A x \in responses :
          IsGetRoot(x.req) =>
              x.resp = [status_code |-> 200, media_type |-> "application/json",
                        body |-> [status |-> "Backend running", module |-> "Foundation",
                                  database |-> "SQLite"]]

C9_Witness ==
    /\ restarts >= 2
    /\ declared # {}
    /\ pc = "serving"
    /\ \E x \in responses : IsGetRoot(x.req)

\* C10: while a process serves, it has created one engine and run schema
\* creation once, and the engine is the one bound at module load, however
\* the handling of concurrent requests is interleaved.
C10_OneEngine ==
    /\ pc = "serving" =>
          /\ engineCreations = 1
          /\ schemaRuns = 1
          /\ engine = [bound |-> TRUE, pid |-> restarts, serial |-> 1]
    /\ pc \in {"create_all", "construct", "register"} =>
          engine = [bound |-> TRUE, pid |-> restarts, serial |-> 1]

C10_Witness ==
    /\ pc = "serving"
    /\ pending # {}
    /\ responses # {}
    /\ engine = [bound |-> TRUE, pid |-> restarts, serial |-> 1]
    /\ restarts >= 1

====
